---- MODULE Spec2Model ----
(***************************************************************************)
(* Model of src/core/join_handle.py: the per-group rule store GroupJoinData *)
(* (a dict kept beside a JSON file) and JoinHandle, the admission engine    *)
(* (should_approve), the admin command handlers and event_monitoring.       *)
(*                                                                          *)
(* A Python str is a sequence of characters, each character one TLA+        *)
(* string.  The Chinese characters of the source are written in pinyin:     *)
(* "jin","qun","bai","ci" is the command prefix of handle_accept_keyword.   *)
(* A Python dict is a function whose DOMAIN is its key set; the six keys of  *)
(* a group's config dict are written as one character each.                 *)
(***************************************************************************)
EXTENDS Integers, Sequences, FiniteSets, TLC

VARIABLES
    cfg,     \* GroupJoinData._cfg : group id -> config dict
    disk,    \* the JSON file behind GroupJoinData.path
    fail,    \* JoinHandle._fail : key "<group>_<user>" -> attempts
    jconf,   \* config["join_config"], read at construction and by handlers
    op,      \* the handler that ran last: its input, its calls, its outcome
    hist,    \* the should_approve calls made since construction, in order, each
             \* with its arguments, its verdict and the group's config at the call
    nev,     \* number of handlers run since construction
    admin_ids, \* JoinHandle.admin_ids, given at construction
    tasks    \* the event_monitoring calls suspended at an await

vars == <<cfg, disk, fail, jconf, op, hist, nev, admin_ids, tasks>>

(***************************** bounds **************************************)
\* handlers run after construction, under Spec
MaxEvents == 2
\* join requests handled after construction, under SpecAttempts
MaxAttempts == 3
\* store operations in one behaviour of SpecStore
MaxStoreOps == 3
\* join requests resolved, by the engine or by an admin, under SpecResolve
MaxResolves == 2
\* join requests that arrive under SpecInterleave
MaxTasks == 2
\* admin commands that run between the steps of their handlers
MaxSwitchCommands == 1

(*************************** Python values *********************************)
None == [none |-> TRUE]
Some(v) == [val |-> v]
IsNone(x) == "none" \in DOMAIN x

EmptyDict == <<>>

\* d.get(k, default)
DictGet(d, k, default) == IF k \in DOMAIN d THEN d[k] ELSE default

\* d with d[k] = v (d[k] = v, dict.update)
DictPut(d, k, v) == [x \in (DOMAIN d) \cup {k} |-> IF x = k THEN v ELSE d[x]]

\* str.lower() on the characters the model uses
LowerChar(c) ==
    CASE c = "A" -> "a"
      [] c = "B" -> "b"
      [] c = "S" -> "s"
      [] c = "P" -> "p"
      [] OTHER -> c

Lower(s) == [i \in 1..Len(s) |-> LowerChar(s[i])]

\* sub in s, for two str
Contains(sub, s) ==
    \E i \in 1..(Len(s) + 1) :
        /\ i + Len(sub) - 1 <= Len(s)
        /\ SubSeq(s, i, i + Len(sub) - 1) = sub

\* x in lst, for a list
InList(x, lst) == \E i \in 1..Len(lst) : lst[i] = x

\* set(lst)
ToSet(lst) == {lst[i] : i \in 1..Len(lst)}

\* str.removeprefix(p)
RemovePrefix(s, p) ==
    IF Len(s) >= Len(p) /\ SubSeq(s, 1, Len(p)) = p
    THEN SubSeq(s, Len(p) + 1, Len(s))
    ELSE s

IsSpace(c) == c = " "

\* str.strip()
RECURSIVE LStrip(_)
LStrip(s) == IF s # <<>> /\ IsSpace(Head(s)) THEN LStrip(Tail(s)) ELSE s

RECURSIVE RStrip(_)
RStrip(s) ==
    IF s # <<>> /\ IsSpace(s[Len(s)]) THEN RStrip(SubSeq(s, 1, Len(s) - 1)) ELSE s

Strip(s) == RStrip(LStrip(s))

\* str.split(): the maximal runs of non-whitespace characters, in order
RECURSIVE SplitFrom(_, _, _)
SplitFrom(s, cur, acc) ==
    IF s = <<>>
    THEN IF cur = <<>> THEN acc ELSE Append(acc, cur)
    ELSE IF IsSpace(Head(s))
         THEN SplitFrom(Tail(s), <<>>, IF cur = <<>> THEN acc ELSE Append(acc, cur))
         ELSE SplitFrom(Tail(s), Append(cur, Head(s)), acc)

Split(s) == SplitFrom(s, <<>>, <<>>)

\* every ordering of a finite set as a list: list(set) has no fixed order
Orderings(S) ==
    {q \in [1..Cardinality(S) -> S] : \A i, j \in 1..Cardinality(S) : q[i] = q[j] => i = j}

(************************ GroupJoinData: the store *************************)
K_switch == <<"switch">>
K_accept_keywords == <<"accept_keywords">>
K_reject_keywords == <<"reject_keywords">>
K_min_level == <<"min_level">>
K_max_time == <<"max_time">>
K_block_ids == <<"block_ids">>

\* the JSON file: absent, unreadable as JSON, or the mapping json.dump wrote
Missing == [state |-> "missing"]
Corrupt == [state |-> "corrupt"]
JsonDump(mapping) == [state |-> "json", content |-> mapping]

\* outcome of one save(): the file is written, or mkdir/open raised and the
\* file is as it was
SaveModes == {"ok", "fail"}

\* GroupJoinData.default_cfg
default_cfg(config) ==
    [k \in {K_switch, K_accept_keywords, K_reject_keywords,
            K_min_level, K_max_time, K_block_ids} |->
        CASE k = K_switch -> config.default_switch
          [] k = K_accept_keywords -> <<>>
          [] k = K_reject_keywords -> <<>>
          [] k = K_min_level -> config.default_min_level
          [] k = K_max_time -> config.default_max_time
          [] k = K_block_ids -> <<>>]

\* GroupJoinData.save: db is the store, [cfg, disk], with the log of the
\* outcomes of its saves; the exception of a failed save is logged, not raised
save(db, m) ==
    IF m = "ok"
    THEN [db EXCEPT !.disk = JsonDump(db.cfg), !.log = Append(@, m)]
    ELSE [db EXCEPT !.log = Append(@, m)]

\* _load that gives up on a file it cannot read and leaves it as it is
load_without_save(file, m) ==
    IF file.state = "json" THEN [cfg |-> file.content, disk |-> file, log |-> <<>>]
    ELSE [cfg |-> EmptyDict, disk |-> file, log |-> <<>>]

\* GroupJoinData._load, from __init__ with _cfg = {}
load(file, m) ==
    IF file.state = "missing" THEN save([cfg |-> EmptyDict, disk |-> file, log |-> <<>>], m)
    ELSE IF file.state = "json" THEN [cfg |-> file.content, disk |-> file, log |-> <<>>]
    ELSE save([cfg |-> EmptyDict, disk |-> file, log |-> <<>>], m)

\* GroupJoinData.ensure_group
ensure_group(db, config, group_id, m) ==
    IF group_id \notin DOMAIN db.cfg
    THEN save([db EXCEPT !.cfg = DictPut(db.cfg, group_id, default_cfg(config))], m)
    ELSE db

\* GroupJoinData.get
get(db, group_id) == DictGet(db.cfg, group_id, EmptyDict)

\* set that updates the mapping and leaves the file as it was
set_without_save(db, config, group_id, key, value, ms) ==
    LET e == ensure_group(db, config, group_id, ms[1])
        g == DictPut(DictGet(e.cfg, group_id, EmptyDict), key, value)
    IN  [e EXCEPT !.cfg = DictPut(e.cfg, group_id, g)]

\* GroupJoinData.set with one keyword argument; ms = the outcomes of its two saves
set(db, config, group_id, key, value, ms) ==
    LET e == ensure_group(db, config, group_id, ms[1])
        g == DictPut(DictGet(e.cfg, group_id, EmptyDict), key, value)
    IN  save([e EXCEPT !.cfg = DictPut(e.cfg, group_id, g)], ms[2])

\* GroupJoinData.remove
remove(db, group_id, m) ==
    save([db EXCEPT !.cfg = [g \in (DOMAIN db.cfg) \ {group_id} |-> db.cfg[g]]], m)

\* get_switch that takes a missing switch for an enabled one
get_switch_default_on(db, group_id) == DictGet(get(db, group_id), K_switch, TRUE)

get_switch(db, group_id) == DictGet(get(db, group_id), K_switch, FALSE)
get_accept_keywords(db, group_id) == DictGet(get(db, group_id), K_accept_keywords, <<>>)
get_reject_keywords(db, group_id) == DictGet(get(db, group_id), K_reject_keywords, <<>>)
get_min_level(db, group_id) == DictGet(get(db, group_id), K_min_level, 0)
get_max_time(db, group_id) == DictGet(get(db, group_id), K_max_time, 0)
get_block_ids(db, group_id) == DictGet(get(db, group_id), K_block_ids, <<>>)

set_switch(db, config, group_id, on, ms) == set(db, config, group_id, K_switch, on, ms)
set_accept_keywords(db, config, group_id, kws, ms) ==
    set(db, config, group_id, K_accept_keywords, kws, ms)
set_reject_keywords(db, config, group_id, kws, ms) ==
    set(db, config, group_id, K_reject_keywords, kws, ms)
set_min_level(db, config, group_id, level, ms) ==
    set(db, config, group_id, K_min_level, level, ms)
set_max_time(db, config, group_id, times, ms) ==
    set(db, config, group_id, K_max_time, times, ms)
set_block_ids(db, config, group_id, uids, ms) ==
    set(db, config, group_id, K_block_ids, uids, ms)

(********************* JoinHandle.should_approve ***************************)
\* the reasons the source returns
R_blacklist == [msg |-> "heimingdan yonghu"]
R_level(user_level, min_level) ==
    [msg |-> "QQ dengji guodi", user_level |-> user_level, min_level |-> min_level]
R_reject_kw == [msg |-> "mingzhong jinqun heici"]
R_limit(max_fail) == [msg |-> "jinqun changshi cishu yida shangxian", max_fail |-> max_fail]
R_accept_kw == [msg |-> "yanzheng tongguo"]
R_empty == [msg |-> ""]

\* truth value of an optional int and of an optional str
TruthyInt(x) == ~IsNone(x) /\ x.val # 0
TruthyStr(x) == ~IsNone(x) /\ x.val # <<>>

\* a key of _fail that leaves the group out
fail_key_user_only(group_id, user_id) == user_id

\* f"{group_id}_{user_id}"
fail_key(group_id, user_id) == group_id \o <<"_">> \o user_id

\* rule 1 (lines 237-240)
is_blacklisted(db, group_id, user_id) ==
    /\ group_id \in DOMAIN get(db, group_id)
    /\ InList(user_id, get_block_ids(db, group_id))

\* rule 2 (lines 243-245)
level_too_low(db, group_id, user_level) ==
    /\ get_min_level(db, group_id) > 0
    /\ TruthyInt(user_level)
    /\ user_level.val < get_min_level(db, group_id)

\* a reject-keyword test that any non-empty comment passes
hits_reject_keyword_any_comment(db, group_id, comment) == TruthyStr(comment)

\* rule 3 (lines 248-253)
hits_reject_keyword(db, group_id, comment) ==
    /\ TruthyStr(comment)
    /\ \E i \in 1..Len(get_reject_keywords(db, group_id)) :
          Contains(Lower(get_reject_keywords(db, group_id)[i]), Lower(comment.val))

\* rule 5 (lines 267-274)
hits_accept_keyword(db, group_id, comment) ==
    /\ TruthyStr(comment)
    /\ InList(group_id, get_accept_keywords(db, group_id))
    /\ \E i \in 1..Len(get_accept_keywords(db, group_id)) :
          Contains(Lower(get_accept_keywords(db, group_id)[i]), Lower(comment.val))

\* record_attempt that counts an attempt twice
record_attempt_twice(fl, key) == DictPut(fl, key, DictGet(fl, key, 0) + 2)

\* record_attempt that works on a count read before any attempt was recorded
record_attempt_stale(fl, key) == DictPut(fl, key, 1)

\* record_attempt that stores the count it read
record_attempt_lost(fl, key) == DictPut(fl, key, DictGet(fl, key, 0))

\* the attempt counter after rule 4 recorded one more attempt (lines 261-262)
record_attempt(fl, key) == DictPut(fl, key, DictGet(fl, key, 0) + 1)

\* should_approve that counts the attempt before it looks at any rule
should_approve_counting_first(db, fl, config, group_id, user_id, comment, user_level, order, ms) ==
    LET max_fail == get_max_time(db, group_id)
        key == fail_key(group_id, user_id)
        fl2 == IF max_fail > 0 THEN record_attempt(fl, key) ELSE fl
    IN  IF is_blacklisted(db, group_id, user_id)
        THEN [approve |-> FALSE, reason |-> R_blacklist, db |-> db, fail |-> fl2]
        ELSE IF level_too_low(db, group_id, user_level)
        THEN [approve |-> FALSE,
              reason |-> R_level(user_level.val, get_min_level(db, group_id)),
              db |-> db, fail |-> fl2]
        ELSE IF hits_reject_keyword(db, group_id, comment)
        THEN [approve |-> FALSE, reason |-> R_reject_kw,
              db |-> set_block_ids(db, config, group_id, order, ms), fail |-> fl2]
        ELSE IF max_fail > 0 /\ fl2[key] > max_fail
        THEN [approve |-> FALSE, reason |-> R_limit(max_fail), db |-> db, fail |-> fl2]
        ELSE IF hits_accept_keyword(db, group_id, comment)
        THEN [approve |-> TRUE, reason |-> R_accept_kw, db |-> db, fail |-> fl2]
        ELSE [approve |-> TRUE, reason |-> R_empty, db |-> db, fail |-> fl2]

\* should_approve: the verdict, the store and the counters it leaves.
\* order = the list that list(set(...) | {user_id}) yields; ms = save outcomes
should_approve(db, fl, config, group_id, user_id, comment, user_level, order, ms) ==
    IF is_blacklisted(db, group_id, user_id)
    THEN [approve |-> FALSE, reason |-> R_blacklist, db |-> db, fail |-> fl]
    ELSE IF level_too_low(db, group_id, user_level)
    THEN [approve |-> FALSE,
          reason |-> R_level(user_level.val, get_min_level(db, group_id)),
          db |-> db, fail |-> fl]
    ELSE IF hits_reject_keyword(db, group_id, comment)
    THEN [approve |-> FALSE, reason |-> R_reject_kw,
          db |-> set_block_ids(db, config, group_id, order, ms), fail |-> fl]
    ELSE LET max_fail == get_max_time(db, group_id)
             key == fail_key(group_id, user_id)
             fl2 == IF max_fail > 0 THEN record_attempt(fl, key) ELSE fl
         IN  IF max_fail > 0 /\ fl2[key] > max_fail
             THEN [approve |-> FALSE, reason |-> R_limit(max_fail), db |-> db, fail |-> fl2]
             ELSE IF hits_accept_keyword(db, group_id, comment)
             THEN [approve |-> TRUE, reason |-> R_accept_kw, db |-> db, fail |-> fl2]
             ELSE [approve |-> TRUE, reason |-> R_empty, db |-> db, fail |-> fl2]

(************************ JoinHandle: inputs *******************************)
\* values of handle_join_review's mode_str: a str, a bool, None; a list is
\* what the sequence patterns of _parse_mode match
ModeStr(s) == [str |-> s]
ModeBool(b) == [bool |-> b]
ModeList(xs) == [items |-> xs]

OnPattern ==
    <<ModeStr(<<"kai">>), ModeStr(<<"kai","qi">>), ModeStr(<<"o","n">>),
      ModeStr(<<"t","r","u","e">>), ModeStr(<<"1">>), ModeBool(TRUE)>>
OffPattern ==
    <<ModeStr(<<"guan">>), ModeStr(<<"guan","bi">>), ModeStr(<<"o","f","f">>),
      ModeStr(<<"f","a","l","s","e">>), ModeStr(<<"0">>), ModeBool(FALSE)>>

\* JoinHandle._parse_mode: `case "a", "b", ..., True:` is a sequence pattern; it
\* matches a list or tuple of exactly these six items, never a str or a bool
parse_mode(mode) ==
    IF "items" \in DOMAIN mode /\ mode.items = OnPattern THEN Some(TRUE)
    ELSE IF "items" \in DOMAIN mode /\ mode.items = OffPattern THEN Some(FALSE)
    ELSE None

\* command prefixes removed by the handlers
P_accept == <<"jin","qun","bai","ci">>
P_reject == <<"jin","qun","hei","ci">>
P_ids == <<"jin","qun","hei","ming","dan">>

\* str(n) for a natural number
DigitChar == <<"0","1","2","3","4","5","6","7","8","9">>
RECURSIVE IntStr(_)
IntStr(n) ==
    IF n < 10 THEN <<DigitChar[n + 1]>>
    ELSE IntStr(n \div 10) \o <<DigitChar[(n % 10) + 1]>>

\* str.isdigit()
IsDigit(s) == s # <<>> /\ \A i \in 1..Len(s) : \E d \in 1..10 : DigitChar[d] = s[i]

\* raw.get(key): the value, or None when the key is absent
RawGet(raw, key) == IF key \in DOMAIN raw THEN Some(raw[key]) ELSE None

\* a or b, for two optional ints
PyOr(a, b) == IF TruthyInt(a) THEN a ELSE b

(***************************** inputs **************************************)
\* group ids as the platform sends them
Groups == {1, 2}
\* the user who sends join requests and leaves; SelfId is the bot
Users == {<<"7">>}
SelfId == <<"9">>

Thresholds(on) == IF on THEN <<2, 1>> ELSE <<0, 0>>

\* join_config as read at construction
JConfs ==
    {[default_switch |-> sw,
      default_min_level |-> Thresholds(~notify)[1],
      default_max_time |-> Thresholds(~notify)[2],
      admin_audit |-> ~notify, leave_notify |-> notify, leave_block |-> sw \/ ~notify,
      welcome_template |-> IF notify THEN <<"h","i">> ELSE <<>>,
      ban_time |-> IF sw THEN 60 ELSE 0] :
        sw \in BOOLEAN, notify \in BOOLEAN}

\* a config dict with all six keys
Config(switch, accept, reject, min_level, max_time, block_ids) ==
    [k \in {K_switch, K_accept_keywords, K_reject_keywords,
            K_min_level, K_max_time, K_block_ids} |->
        CASE k = K_switch -> switch
          [] k = K_accept_keywords -> accept
          [] k = K_reject_keywords -> reject
          [] k = K_min_level -> min_level
          [] k = K_max_time -> max_time
          [] k = K_block_ids -> block_ids]

\* what an earlier run left: group 1 after admin commands, group 2 as created
\* under default_switch = True, default_min_level = 2, default_max_time = 1
Stored ==
    (IntStr(1) :> Config(TRUE, << <<"1">>, <<"a","b">> >>, << <<"S","p">> >>, 2, 2,
                         << <<"8">> >>))
    @@ (IntStr(2) :> Config(TRUE, <<>>, <<>>, 2, 1, <<>>))

\* the JSON file found at construction: none, an unreadable one, or Stored
StoredFiles == {Missing, Corrupt, JsonDump(Stored)}

ModeInputs == {ModeStr(<<"kai">>), ModeStr(<<"guan">>), None}
AcceptMsgs == {P_accept, P_accept \o <<" ","1"," ","a","b">>}
RejectMsgs == {P_reject, P_reject \o <<" ","S","p">>}
IdsMsgs == {P_ids, P_ids \o <<" ","7">>, P_ids \o <<" ","8"," ","8">>}
LevelInputs == {None, Some(2)}
TimeInputs == {None, Some(1)}

\* how a join request goes: its comment (None: no comment), the answer of
\* get_stranger_info, and the platform call that raises
NoInfo == [nickname |-> <<"n">>]
RequestCases ==
    {[comment |-> c, info |-> NoInfo, fault |-> "none"] :
        c \in {None, Some(<<>>), Some(<<"x","S","P">>), Some(<<"a","B">>)}}
    \cup {[comment |-> c, info |-> i, fault |-> "none"] :
        c \in {None, Some(<<"x","S","P">>)},
        i \in {[nickname |-> <<"n">>, qqLevel |-> 1],
               [nickname |-> <<"n">>, qqLevel |-> 0, level |-> 0]}}
    \cup {[comment |-> None, info |-> NoInfo, fault |-> f] :
        f \in {"get_stranger_info", "send_notice", "set_group_add_request",
               "send_result"}}

\* the join requests of SpecAttempts: every platform call succeeds
AttemptCases ==
    {[comment |-> c, info |-> NoInfo, fault |-> "none"] :
        c \in {None, Some(<<"x","S","P">>), Some(<<"a","B">>)}}
    \cup {[comment |-> None, info |-> [nickname |-> <<"n">>, qqLevel |-> 1],
           fault |-> "none"]}

RequestRaw(g, u, c) ==
    IF IsNone(c)
    THEN [post_type |-> "request", request_type |-> "group", sub_type |-> "add",
          group_id |-> g, user_id |-> u, flag |-> "f"]
    ELSE [post_type |-> "request", request_type |-> "group", sub_type |-> "add",
          group_id |-> g, user_id |-> u, flag |-> "f", comment |-> c.val]

\* the notices: a leave, a kick, a new member, the bot itself joining
Notices ==
    UNION {
      {[post_type |-> "notice", notice_type |-> "group_decrease",
        sub_type |-> st, group_id |-> g, user_id |-> u] : st \in {"leave", "kick"}}
      \cup {[post_type |-> "notice", notice_type |-> "group_increase",
             sub_type |-> "approve", group_id |-> g, user_id |-> w] : w \in {u, SelfId}}
      : g \in Groups, u \in Users}

\* one outbound call of a handler
Call(name, args) == [call |-> name, args |-> args]

Db == [cfg |-> cfg, disk |-> disk, log |-> <<>>]

\* the outcomes of the saves of one set(): ensure_group saves only a new group
SavesFor(db, group_id) ==
    (IF group_id \in DOMAIN db.cfg THEN {"ok"} ELSE SaveModes) \X SaveModes
Pre == [cfg |-> cfg, fail |-> fail]

\* a handler returns (or raises) leaving the store db2 and the counters fl2
Finish(db2, fl2, kind, input, trace, sa, raised) ==
    /\ cfg' = db2.cfg
    /\ disk' = db2.disk
    /\ fail' = fl2
    /\ op' = [kind |-> kind, input |-> input, trace |-> trace, sa |-> sa,
              raised |-> raised, saves |-> db2.log, pre |-> Pre]
    /\ hist' = IF IsNone(sa) THEN hist ELSE Append(hist, sa.val)
    /\ nev' = nev + 1
    /\ UNCHANGED <<jconf, admin_ids>>

(************************ JoinHandle: admin commands ***********************)
handle_join_review(gid, mode_str) ==
    LET mode == parse_mode(mode_str)
        input == [gid |-> gid, mode_str |-> mode_str]
    IN  IF mode = Some(TRUE)
        THEN \E ms \in SavesFor(Db, gid) :
                Finish(set_switch(Db, jconf, gid, TRUE, ms), fail, "handle_join_review",
                       input, <<Call("send", "switch on")>>, None, FALSE)
        ELSE IF mode = Some(FALSE)
        THEN \E ms \in SavesFor(Db, gid) :
                Finish(set_switch(Db, jconf, gid, FALSE, ms), fail, "handle_join_review",
                       input, <<Call("send", "switch off")>>, None, FALSE)
        ELSE Finish(Db, fail, "handle_join_review", input,
                    <<Call("send", get_switch(Db, gid))>>, None, FALSE)

handle_accept_keyword(gid, message_str) ==
    LET keywords == Split(Strip(RemovePrefix(message_str, P_accept)))
        input == [gid |-> gid, message_str |-> message_str]
    IN  IF keywords # <<>>
        THEN \E ms \in SavesFor(Db, gid) :
                Finish(set_accept_keywords(Db, jconf, gid, keywords, ms), fail,
                       "handle_accept_keyword", input, <<Call("send", keywords)>>,
                       None, FALSE)
        ELSE Finish(Db, fail, "handle_accept_keyword", input,
                    <<Call("send", get_accept_keywords(Db, gid))>>, None, FALSE)

handle_reject_keywords(gid, message_str) ==
    LET keywords == Split(Strip(RemovePrefix(message_str, P_reject)))
        input == [gid |-> gid, message_str |-> message_str]
    IN  IF keywords # <<>>
        THEN \E ms \in SavesFor(Db, gid) :
                Finish(set_reject_keywords(Db, jconf, gid, keywords, ms), fail,
                       "handle_reject_keywords", input, <<Call("send", keywords)>>,
                       None, FALSE)
        ELSE Finish(Db, fail, "handle_reject_keywords", input,
                    <<Call("send", get_reject_keywords(Db, gid))>>, None, FALSE)

handle_level_threshold(gid, level) ==
    LET input == [gid |-> gid, level |-> level]
    IN  IF ~IsNone(level)
        THEN \E ms \in SavesFor(Db, gid) :
                Finish(set_min_level(Db, jconf, gid, level.val, ms), fail,
                       "handle_level_threshold", input,
                       <<Call("send", IF level.val > 0 THEN "set" ELSE "lifted")>>,
                       None, FALSE)
        ELSE Finish(Db, fail, "handle_level_threshold", input,
                    <<Call("send", get_min_level(Db, gid))>>, None, FALSE)

handle_join_time(gid, time) ==
    LET input == [gid |-> gid, time |-> time]
    IN  IF ~IsNone(time)
        THEN \E ms \in SavesFor(Db, gid) :
                Finish(set_max_time(Db, jconf, gid, time.val, ms), fail,
                       "handle_join_time", input,
                       <<Call("send", IF time.val > 0 THEN "set" ELSE "lifted")>>,
                       None, FALSE)
        ELSE Finish(Db, fail, "handle_join_time", input,
                    <<Call("send", get_max_time(Db, gid))>>, None, FALSE)

handle_reject_ids(gid, message_str) ==
    LET ids == Split(Strip(RemovePrefix(message_str, P_ids)))
        input == [gid |-> gid, message_str |-> message_str]
    IN  IF ids # <<>>
        THEN \E ms \in SavesFor(Db, gid) :
                Finish(set_block_ids(Db, jconf, gid, ids, ms), fail,
                       "handle_reject_ids", input, <<>>, None, FALSE)
        ELSE Finish(Db, fail, "handle_reject_ids", input,
                    <<Call("send", get_block_ids(Db, gid))>>, None, FALSE)

(************************ JoinHandle.event_monitoring **********************)
\* values of JoinHandle.admin_ids: one numeric id and one that is not, or no
\* numeric id at all
AdminIdLists == { << <<"9","0">>, <<"b","o","s","s">> >>, << <<"b","o","s","s">> >> }

\* the awaits of lines 306-319 that end the handler when they raise: a failing
\* send_private_msg is caught in _send_admin
RaisesBeforeEvaluation(fault) ==
    \/ fault = "get_stranger_info"
    \/ fault = "send_notice" /\ ~jconf.admin_audit

\* _send_admin that messages every admin id, numeric or not
send_admin_to_all(ids) == [i \in 1..Len(ids) |-> Call("send_private_msg", ids[i])]

\* JoinHandle._send_admin: one private message per admin id that is all digits;
\* a failing send is logged and the loop goes on
send_admin(ids) ==
    LET RECURSIVE Go(_)
        Go(rest) ==
            IF rest = <<>> THEN <<>>
            ELSE (IF IsDigit(Head(rest))
                  THEN <<Call("send_private_msg", Head(rest))>>
                  ELSE <<>>) \o Go(Tail(rest))
    IN  Go(ids)

IsJoinRequest(raw) ==
    /\ RawGet(raw, "post_type") = Some("request")
    /\ RawGet(raw, "request_type") = Some("group")
    /\ RawGet(raw, "sub_type") = Some("add")

IsLeave(raw, config) ==
    /\ config.leave_notify
    /\ RawGet(raw, "post_type") = Some("notice")
    /\ RawGet(raw, "notice_type") = Some("group_decrease")
    /\ RawGet(raw, "sub_type") = Some("leave")

IsIncrease(raw, user_id, self_id) ==
    /\ RawGet(raw, "notice_type") = Some("group_increase")
    /\ user_id # self_id

\* lines 298-332: info = the answer of get_stranger_info, fault = the call that raises
join_request(db, raw, group_id, user_id, info, fault, order, ms) ==
    LET comment == RawGet(raw, "comment")
        user_level == PyOr(RawGet(info, "qqLevel"), RawGet(info, "level"))
        input == [raw |-> Some(raw), info |-> info, fault |-> fault]
        t1 == <<Call("get_stranger_info", user_id)>>
        t2 == t1 \o (IF jconf.admin_audit THEN send_admin(admin_ids)
                     ELSE <<Call("send", "notice")>>)
    IN  \E r \in {should_approve(db, fail, jconf, group_id, user_id, comment,
                                  user_level, order, ms)} :
    LET sa == Some([group_id |-> group_id, user_id |-> user_id, comment |-> comment,
                    user_level |-> user_level, approve |-> r.approve,
                    reason |-> r.reason, conf |-> get(db, group_id)])
        t3 == t2 \o <<Call("should_approve", user_id),
                      Call("set_group_add_request",
                           <<r.approve, IF ~r.approve THEN r.reason ELSE R_empty>>)>>
        t4 == t3 \o <<Call("send", <<r.approve, r.reason>>)>>
    IN  IF fault = "get_stranger_info"
        THEN Finish(db, fail, "event_monitoring", input, t1, None, TRUE)
        ELSE IF fault = "send_notice" /\ ~jconf.admin_audit
        THEN Finish(db, fail, "event_monitoring", input, t2, None, TRUE)
        ELSE IF fault = "set_group_add_request"
        THEN Finish(r.db, r.fail, "event_monitoring", input, t3, sa, TRUE)
        ELSE Finish(r.db, r.fail, "event_monitoring", input, t4, sa,
                    fault = "send_result")

\* lines 334-347
leave(db, raw, group_id, user_id, ms) ==
    LET input == [raw |-> Some(raw), info |-> None, fault |-> "none"]
        block_ids == Append(get_block_ids(db, group_id), user_id)
    IN  IF jconf.leave_block
        THEN Finish(set_block_ids(db, jconf, group_id, block_ids, ms), fail,
                    "event_monitoring", input,
                    <<Call("get_nickname", user_id), Call("send", "left, blacklisted")>>,
                    None, FALSE)
        ELSE Finish(db, fail, "event_monitoring", input,
                    <<Call("get_nickname", user_id), Call("send", "left")>>,
                    None, FALSE)

\* lines 349-369: a failing set_group_ban is swallowed
increase(db, raw, group_id, user_id) ==
    Finish(db, fail, "event_monitoring",
           [raw |-> Some(raw), info |-> None, fault |-> "none"],
           (IF jconf.welcome_template # <<>>
            THEN <<Call("get_nickname", user_id), Call("send", "welcome")>>
            ELSE <<>>)
           \o (IF jconf.ban_time > 0
               THEN <<Call("set_group_ban", <<group_id, user_id>>)>>
               ELSE <<>>),
           None, FALSE)

\* raw_message = None stands for a raw_message that is not a dict; platform =
\* the ways the platform may answer the calls of the join-request branch
event_monitoring(raw_message, self_id, platform) ==
    IF IsNone(raw_message)
    THEN Finish(Db, fail, "event_monitoring",
                [raw |-> None, info |-> None, fault |-> "none"], <<>>, None, FALSE)
    ELSE
    LET raw == raw_message.val
        gid == RawGet(raw, "group_id")
        group_id == IF IsNone(gid) THEN <<>> ELSE IntStr(gid.val)
        uid == RawGet(raw, "user_id")
        user_id == IF IsNone(uid) THEN <<>> ELSE uid.val
        quiet == [raw |-> raw_message, info |-> None, fault |-> "none"]
    IN  IF ~get_switch(Db, group_id)
        THEN Finish(Db, fail, "event_monitoring", quiet, <<>>, None, FALSE)
        ELSE
        \E m \in IF group_id \in DOMAIN cfg THEN {"ok"} ELSE SaveModes :
        LET db == ensure_group(Db, jconf, group_id, m)
        IN  IF IsJoinRequest(raw)
            THEN \E case \in {c \in platform : c.comment = RawGet(raw, "comment")} :
                 LET info == case.info
                     fault == case.fault
                     blocks ==
                         /\ ~RaisesBeforeEvaluation(fault)
                         /\ ~is_blacklisted(db, group_id, user_id)
                         /\ ~level_too_low(db, group_id,
                                PyOr(RawGet(info, "qqLevel"), RawGet(info, "level")))
                         /\ hits_reject_keyword(db, group_id, RawGet(raw, "comment"))
                 IN  \E order \in IF blocks
                                   THEN Orderings(ToSet(get_block_ids(db, group_id))
                                                  \cup {user_id})
                                   ELSE {<<>>},
                        ms \in IF blocks THEN SavesFor(db, group_id) ELSE {<<"ok", "ok">>} :
                        join_request(db, raw, group_id, user_id, info, fault, order, ms)
            ELSE IF IsLeave(raw, jconf)
            THEN \E ms \in IF jconf.leave_block THEN SavesFor(db, group_id)
                            ELSE {<<"ok", "ok">>} :
                    leave(db, raw, group_id, user_id, ms)
            ELSE IF IsIncrease(raw, user_id, self_id)
            THEN increase(db, raw, group_id, user_id)
            ELSE Finish(db, fail, "event_monitoring", quiet, <<>>, None, FALSE)

(******************** JoinHandle: the manual override **********************)
\* the text of the quoted message, as a list of lines (text.split("\n")), None
\* when nothing is quoted; M stands for the marker of a join-request notice
\* and ":" for the full-width colon
ReplyTexts ==
    {None,
     Some(<< <<"h","i">> >>),
     Some(<< <<"M","x">>, <<"n","i","c","k",":","n">>, <<"Q","Q",":","7">>,
             <<"f","l","a","g",":","f">> >>),
     Some(<< <<"M","x">>, <<"n","i","c","k">>, <<"Q","Q",":","7">>,
             <<"f","l","a","g",":","f">> >>)}

\* str.split(sep) for a one-character separator
RECURSIVE SplitOn(_, _, _, _)
SplitOn(s, sep, cur, acc) ==
    IF s = <<>> THEN Append(acc, cur)
    ELSE IF Head(s) = sep THEN SplitOn(Tail(s), sep, <<>>, Append(acc, cur))
    ELSE SplitOn(Tail(s), sep, Append(cur, Head(s)), acc)

\* JoinHandle.set_approve: reply = the str it returns (None: returns None),
\* raised = an exception leaves it; fault = set_group_add_request raises
set_approve(text, extra, approve, fault) ==
    IF IsNone(text) \/ text.val = <<>>
    THEN [reply |-> Some("nothing quoted"), trace |-> <<>>, raised |-> FALSE]
    ELSE
    LET lines == text.val
        marked == \E i \in 1..Len(lines) : InList("M", lines[i])
    IN  IF ~(marked /\ Len(lines) >= 4)
        THEN [reply |-> None, trace |-> <<>>, raised |-> FALSE]
        ELSE IF Len(SplitOn(lines[2], ":", <<>>, <<>>)) < 2
                \/ Len(SplitOn(lines[4], ":", <<>>, <<>>)) < 2
        THEN [reply |-> None, trace |-> <<>>, raised |-> TRUE]
        ELSE
        LET nickname == SplitOn(lines[2], ":", <<>>, <<>>)[2]
            flag == SplitOn(lines[4], ":", <<>>, <<>>)[2]
            call == Call("set_group_add_request", <<approve, flag, extra>>)
        IN  IF fault
            THEN [reply |-> Some("handled already or wrong format"),
                  trace |-> <<call>>, raised |-> FALSE]
            ELSE [reply |-> Some(<<IF approve THEN "agreed" ELSE "refused", nickname>>),
                  trace |-> <<call>>, raised |-> FALSE]

\* agree_add_group (approve = TRUE) and refuse_add_group (approve = FALSE)
add_group(text, extra, approve, fault) ==
    LET r == set_approve(text, extra, approve, fault)
    IN  Finish(Db, fail, IF approve THEN "agree_add_group" ELSE "refuse_add_group",
               [text |-> text, extra |-> extra, fault |-> fault],
               IF ~r.raised /\ ~IsNone(r.reply)
               THEN Append(r.trace, Call("send", r.reply.val))
               ELSE r.trace,
               None, r.raised)

(*************************** the state machine *****************************)
\* JoinHandle.__init__ and GroupJoinData.__init__ over the file, m = the
\* outcome of the save of _load; input = what op keeps of the construction
Construct(config, file, m, ids, input) ==
    /\ admin_ids = ids
    /\ tasks = <<>>
    /\ cfg = load(file, m).cfg
    /\ disk = load(file, m).disk
    /\ fail = EmptyDict
    /\ jconf = config
    /\ hist = <<>>
    /\ nev = 0
    /\ op = [kind |-> "init", input |-> input, trace |-> <<>>, sa |-> None,
             raised |-> FALSE, saves |-> load(file, m).log,
             pre |-> [cfg |-> EmptyDict, fail |-> EmptyDict]]

Init ==
    \E config \in JConfs, file \in StoredFiles :
    \E m \in IF file.state = "json" THEN {"ok"} ELSE SaveModes :
        Construct(config, file, m, << <<"9","0">>, <<"b","o","s","s">> >>, None)

JoinReview ==
    /\ nev < MaxEvents
    /\ \E g \in Groups, mode \in ModeInputs : handle_join_review(IntStr(g), mode)
    /\ UNCHANGED tasks
AcceptKeyword ==
    /\ nev < MaxEvents
    /\ \E g \in Groups, msg \in AcceptMsgs : handle_accept_keyword(IntStr(g), msg)
    /\ UNCHANGED tasks
RejectKeywords ==
    /\ nev < MaxEvents
    /\ \E g \in Groups, msg \in RejectMsgs : handle_reject_keywords(IntStr(g), msg)
    /\ UNCHANGED tasks
LevelThreshold ==
    /\ nev < MaxEvents
    /\ \E g \in Groups, lv \in LevelInputs : handle_level_threshold(IntStr(g), lv)
    /\ UNCHANGED tasks
JoinTime ==
    /\ nev < MaxEvents
    /\ \E g \in Groups, t \in TimeInputs : handle_join_time(IntStr(g), t)
    /\ UNCHANGED tasks
RejectIds ==
    /\ nev < MaxEvents
    /\ \E g \in Groups, msg \in IdsMsgs : handle_reject_ids(IntStr(g), msg)
    /\ UNCHANGED tasks
JoinRequest ==
    /\ nev < MaxEvents
    /\ \E g \in Groups, u \in Users, c \in {case.comment : case \in RequestCases} :
          event_monitoring(Some(RequestRaw(g, u, c)), SelfId, RequestCases)
    /\ UNCHANGED tasks
Notice ==
    /\ nev < MaxEvents
    /\ \E raw \in {None} \cup {Some(r) : r \in Notices} :
          event_monitoring(raw, SelfId, RequestCases)
    /\ UNCHANGED tasks
Next ==
    \/ JoinReview
    \/ AcceptKeyword
    \/ RejectKeywords
    \/ LevelThreshold
    \/ JoinTime
    \/ RejectIds
    \/ JoinRequest
    \/ Notice

Spec == Init /\ [][Next]_vars

\* the join requests of one run over the stored file, admin commands aside
InitAttempts == Init /\ disk = JsonDump(Stored)

Attempt ==
    /\ nev < MaxAttempts
    /\ \E g \in Groups, u \in Users, c \in {case.comment : case \in AttemptCases} :
          event_monitoring(Some(RequestRaw(g, u, c)), SelfId, AttemptCases)
    /\ UNCHANGED tasks

SpecAttempts == InitAttempts /\ [][Attempt]_vars

(********************* the store operations on their own *******************)
\* set() as the setters call it: a field and a value for it
StoreFields ==
    {<<K_switch, FALSE>>, <<K_min_level, 1>>, <<K_block_ids, << <<"7">> >> >>}
StoreOps == {"set", "ensure_group", "remove"}

StoreSet ==
    /\ nev < MaxStoreOps
    /\ \E g \in Groups, f \in StoreFields : \E ms \in SavesFor(Db, IntStr(g)) :
          Finish(set(Db, jconf, IntStr(g), f[1], f[2], ms), fail, "set",
                 [gid |-> IntStr(g), key |-> f[1], value |-> f[2]], <<>>, None, FALSE)
    /\ UNCHANGED tasks
StoreEnsure ==
    /\ nev < MaxStoreOps
    /\ \E g \in Groups, m \in SaveModes :
          Finish(ensure_group(Db, jconf, IntStr(g), m), fail, "ensure_group",
                 [gid |-> IntStr(g)], <<>>, None, FALSE)
    /\ UNCHANGED tasks
StoreRemove ==
    /\ nev < MaxStoreOps
    /\ \E g \in Groups, m \in SaveModes :
          Finish(remove(Db, IntStr(g), m), fail, "remove",
                 [gid |-> IntStr(g)], <<>>, None, FALSE)
    /\ UNCHANGED tasks

NextStore ==
    \/ StoreSet
    \/ StoreEnsure
    \/ StoreRemove

\* construction over each file, the file kept in op
InitStore ==
    \E config \in JConfs, file \in StoredFiles :
    \E m \in IF file.state = "json" THEN {"ok"} ELSE SaveModes :
        Construct(config, file, m, << <<"9","0">>, <<"b","o","s","s">> >>,
                  [file |-> file])

SpecStore == InitStore /\ [][NextStore]_vars

(************* resolving join requests: the engine and the admins **********)
InitResolve ==
    \E config \in JConfs, ids \in AdminIdLists :
        Construct(config, JsonDump(Stored), "ok", ids, None)

AutoResolve ==
    /\ nev < MaxResolves
    /\ \E g \in Groups, u \in Users, c \in {case.comment : case \in RequestCases} :
          event_monitoring(Some(RequestRaw(g, u, c)), SelfId, RequestCases)
    /\ UNCHANGED tasks
ManualApprove ==
    /\ nev < MaxResolves
    /\ \E text \in ReplyTexts, approve \in BOOLEAN, fault \in BOOLEAN :
          add_group(text, <<>>, approve, fault)
    /\ UNCHANGED tasks

NextResolve ==
    \/ AutoResolve
    \/ ManualApprove

SpecResolve == InitResolve /\ [][NextResolve]_vars

(************ event_monitoring suspended at its awaits, interleaved *********)
\* the join requests that arrive: without a comment, with a reject keyword
ArrivingComments == {None, Some(<<"x","S","P">>)}

\* a join-request event arrives: lines 284-306 run up to the await of
\* get_stranger_info, where the handler is suspended with its locals
Arrive ==
    /\ Len(tasks) < MaxTasks
    /\ \E g \in Groups, u \in Users, c \in ArrivingComments :
          LET raw == RequestRaw(g, u, c)
              group_id == IntStr(g)
          IN  /\ get_switch(Db, group_id)
              /\ IsJoinRequest(raw)
              /\ cfg' = ensure_group(Db, jconf, group_id, "ok").cfg
              /\ disk' = ensure_group(Db, jconf, group_id, "ok").disk
              /\ tasks' = Append(tasks, [pc |-> "get_stranger_info", group_id |-> group_id,
                                         user_id |-> u, comment |-> RawGet(raw, "comment"),
                                         user_level |-> None, seen |-> None,
                                         crossed |-> FALSE])
    /\ UNCHANGED <<fail, jconf, op, hist, nev, admin_ids>>

\* get_stranger_info answers: lines 307-319 run up to the await of the
\* pre-notification
Notify ==
    /\ \E i \in 1..Len(tasks) :
          /\ tasks[i].pc = "get_stranger_info"
          /\ tasks' = [tasks EXCEPT ![i].pc = "notice",
                                    ![i].user_level =
                                        PyOr(RawGet(NoInfo, "qqLevel"), RawGet(NoInfo, "level"))]
    /\ UNCHANGED <<cfg, disk, fail, jconf, op, hist, nev, admin_ids>>

\* the pre-notification is sent: lines 321-329 run, should_approve as one step
\* (it is not a coroutine), up to the await of set_group_add_request; seen =
\* the count rule 4 compared with max_time, None when rule 4 was not reached
Evaluate ==
    /\ \E i \in 1..Len(tasks) :
          LET t == tasks[i]
              blocks == /\ ~is_blacklisted(Db, t.group_id, t.user_id)
                        /\ ~level_too_low(Db, t.group_id, t.user_level)
                        /\ hits_reject_keyword(Db, t.group_id, t.comment)
          IN  /\ t.pc = "notice"
              /\ \E order \in IF blocks
                                THEN Orderings(ToSet(get_block_ids(Db, t.group_id))
                                               \cup {t.user_id})
                                ELSE {<<>>} :
                  \E r \in {should_approve(Db, fail, jconf, t.group_id, t.user_id,
                                           t.comment, t.user_level, order, <<"ok", "ok">>)} :
                     /\ cfg' = r.db.cfg
                     /\ disk' = r.db.disk
                     /\ fail' = r.fail
                     /\ hist' = Append(hist, [group_id |-> t.group_id, user_id |-> t.user_id,
                                              comment |-> t.comment,
                                              user_level |-> t.user_level,
                                              approve |-> r.approve, reason |-> r.reason,
                                              conf |-> get(Db, t.group_id)])
                     /\ tasks' = [tasks EXCEPT
                                    ![i].pc = "set_group_add_request",
                                    ![i].seen =
                                        IF blocks \/ r.reason \in {R_blacklist, R_reject_kw}
                                              \/ level_too_low(Db, t.group_id, t.user_level)
                                              \/ get_max_time(Db, t.group_id) <= 0
                                        THEN None
                                        ELSE Some(DictGet(r.fail, fail_key(t.group_id, t.user_id), 0))]
    /\ UNCHANGED <<jconf, op, nev, admin_ids>>

\* set_group_add_request returns: lines 330-331 send the verdict and the
\* handler returns
Report ==
    /\ \E i \in 1..Len(tasks) :
          /\ tasks[i].pc = "set_group_add_request"
          /\ tasks' = [tasks EXCEPT ![i].pc = "done"]
    /\ UNCHANGED <<cfg, disk, fail, jconf, op, hist, nev, admin_ids>>

\* the admin's word for switching the review off
OffWords == {ModeStr(<<"guan">>)}

\* an admin's handle_join_review runs between two steps of the suspended
\* handlers (it changes the store before its only await); crossed marks the
\* handlers of that group that are between their switch check and their call
\* of should_approve when the admin says "off"
SwitchCommand ==
    /\ nev < MaxSwitchCommands
    /\ \E g \in Groups, mode \in OffWords :
          /\ handle_join_review(IntStr(g), mode)
          /\ tasks' = [i \in 1..Len(tasks) |->
                          IF /\ tasks[i].group_id = IntStr(g)
                             /\ tasks[i].pc \in {"get_stranger_info", "notice"}
                          THEN [tasks[i] EXCEPT !.crossed = TRUE]
                          ELSE tasks[i]]

NextInterleave ==
    \/ Arrive
    \/ Notify
    \/ Evaluate
    \/ Report
    \/ SwitchCommand

\* construction over the stored file; the plugin config is not read by the
\* steps above except for the defaults of a group without a config
InitInterleave == InitAttempts /\ jconf.default_switch /\ jconf.leave_notify

SpecInterleave == InitInterleave /\ [][NextInterleave]_vars

(***************************************************************************)
(* The claims.  A call is an entry of hist: the arguments of one            *)
(* should_approve call, its verdict, and conf, the group's config dict when *)
(* it was called.  The rules below are those of the specification, stated   *)
(* on a call, not the code's tests.                                         *)
(***************************************************************************)
Evaluated == ~IsNone(op.sa)
TheCall == op.sa.val

MinLevelAt(e) == DictGet(e.conf, K_min_level, 0)
MaxTimeAt(e) == DictGet(e.conf, K_max_time, 0)
BlockIdsAt(e) == DictGet(e.conf, K_block_ids, <<>>)

Blacklisted(e) == InList(e.user_id, BlockIdsAt(e))
BelowLevel(e) ==
    /\ MinLevelAt(e) > 0
    /\ ~IsNone(e.user_level)
    /\ e.user_level.val < MinLevelAt(e)
MatchesAny(kws, comment) ==
    /\ ~IsNone(comment)
    /\ \E i \in 1..Len(kws) : Contains(Lower(kws[i]), Lower(comment.val))
RejectHit(e) == MatchesAny(DictGet(e.conf, K_reject_keywords, <<>>), e.comment)
AcceptHit(e) == MatchesAny(DictGet(e.conf, K_accept_keywords, <<>>), e.comment)

\* the attempt counter of the pair (g, u)
CounterOf(fl, g, u) == DictGet(fl, g \o <<"_">> \o u, 0)

BlockIdsIn(c, g) == DictGet(DictGet(c, g, EmptyDict), K_block_ids, <<>>)
PersistedBlockIds(g) ==
    IF disk.state = "json" THEN BlockIdsIn(disk.content, g) ELSE <<>>

\* C1: a user who is in the group's block_ids when should_approve is called is
\* rejected with the reason "blacklisted user", whatever the comment and level.
C1_BlacklistPrecedence ==
    \A i \in 1..Len(hist) :
        Blacklisted(hist[i]) => ~hist[i].approve /\ hist[i].reason = R_blacklist

\* C2: when should_approve returns the reject-keyword verdict, the user is in
\* the group's block_ids in memory and in the persisted store.
C2_RejectKeywordBlacklists ==
    Evaluated /\ TheCall.reason = R_reject_kw =>
        /\ InList(TheCall.user_id, BlockIdsIn(cfg, TheCall.group_id))
        /\ InList(TheCall.user_id, PersistedBlockIds(TheCall.group_id))

\* C2 as amended: in memory always; in the persisted store when none of the
\* saves of the call failed.
C2_RejectKeywordBlacklistsUnlessSaveFails ==
    Evaluated /\ TheCall.reason = R_reject_kw =>
        /\ InList(TheCall.user_id, BlockIdsIn(cfg, TheCall.group_id))
        /\ (\A i \in 1..Len(op.saves) : op.saves[i] = "ok") =>
               InList(TheCall.user_id, PersistedBlockIds(TheCall.group_id))

\* a reject-keyword verdict for a user who was not in block_ids and now is, in
\* memory and on disk
C2_Witness ==
    /\ Evaluated
    /\ TheCall.reason = R_reject_kw
    /\ ~Blacklisted(TheCall)
    /\ InList(TheCall.user_id, BlockIdsIn(cfg, TheCall.group_id))
    /\ InList(TheCall.user_id, PersistedBlockIds(TheCall.group_id))

\* the calls made for the pair (g, u), as indexes of hist
CallsOf(g, u) == {i \in 1..Len(hist) : hist[i].group_id = g /\ hist[i].user_id = u}
\* a call with max_time = n > 0 that no other rule disqualifies
Clean(e, n) ==
    /\ n > 0
    /\ MaxTimeAt(e) = n
    /\ ~Blacklisted(e)
    /\ ~BelowLevel(e)
    /\ ~RejectHit(e)

\* C3: with max_time = N > 0 held constant and no other disqualifying condition,
\* the k-th call for a pair since process start approves when k <= N and rejects
\* with the attempt-limit reason naming N when k > N.
C3_AttemptCapSequence ==
    \A i \in 1..Len(hist) :
        LET e == hist[i]
            before == {j \in CallsOf(e.group_id, e.user_id) : j <= i}
            k == Cardinality(before)
            n == MaxTimeAt(e)
        IN  (\A j \in before : Clean(hist[j], n)) =>
                IF k <= n THEN e.approve
                ELSE ~e.approve /\ e.reason = R_limit(n)

\* three calls for one pair with max_time = 2: approve, approve, reject
C3_Witness ==
    \E i1, i2, i3 \in 1..Len(hist) :
        /\ i1 < i2 /\ i2 < i3
        /\ CallsOf(hist[i3].group_id, hist[i3].user_id) = {i1, i2, i3}
        /\ \A j \in {i1, i2, i3} : Clean(hist[j], 2)
        /\ hist[i1].approve /\ hist[i2].approve
        /\ ~hist[i3].approve /\ hist[i3].reason = R_limit(2)

\* C4: the counter of the pair strictly increases on every should_approve call
\* made while max_time > 0, whichever rule produces the verdict.
C4_CounterIncreasesOnEveryCall ==
    Evaluated /\ MaxTimeAt(TheCall) > 0 =>
        CounterOf(fail, TheCall.group_id, TheCall.user_id)
            > CounterOf(op.pre.fail, TheCall.group_id, TheCall.user_id)

EarlierRuleVerdict(e) ==
    e.reason.msg \in {R_blacklist.msg, R_level(0, 0).msg, R_reject_kw.msg}

\* C4 as amended: the counter strictly increases on every call made while
\* max_time > 0 whose verdict is not a rejection by the blacklist, level or
\* reject-keyword rule.
C4_CounterIncreasesWhenCapReached ==
    Evaluated /\ MaxTimeAt(TheCall) > 0 /\ ~EarlierRuleVerdict(TheCall) =>
        CounterOf(fail, TheCall.group_id, TheCall.user_id)
            > CounterOf(op.pre.fail, TheCall.group_id, TheCall.user_id)

\* a call rejected by the attempt cap, after which the counter is higher
C4_Witness ==
    /\ Evaluated
    /\ MaxTimeAt(TheCall) > 0
    /\ TheCall.reason = R_limit(MaxTimeAt(TheCall))
    /\ CounterOf(fail, TheCall.group_id, TheCall.user_id)
           = CounterOf(op.pre.fail, TheCall.group_id, TheCall.user_id) + 1

\* C5: a user who is not blacklisted, with a known level below min_level > 0, is
\* rejected with a reason holding both values; an unknown level is never
\* rejected by the level rule.
C5_LevelThreshold ==
    \A i \in 1..Len(hist) :
        LET e == hist[i]
        IN  /\ ~Blacklisted(e) /\ BelowLevel(e) =>
                ~e.approve /\ e.reason = R_level(e.user_level.val, MinLevelAt(e))
            /\ IsNone(e.user_level) => e.reason.msg # R_level(0, 0).msg

\* C6: when no rule rejects and the comment contains an accept keyword, the
\* verdict is approve with the reason "passed verification".
C6_AcceptKeywordVerdict ==
    \A i \in 1..Len(hist) :
        hist[i].approve /\ AcceptHit(hist[i]) => hist[i].reason = R_accept_kw

\* the recorded count of the pair exceeds max_time > 0, after the call
CapExceeded == 
    /\ MaxTimeAt(TheCall) > 0
    /\ CounterOf(fail, TheCall.group_id, TheCall.user_id) > MaxTimeAt(TheCall)

Justified == Blacklisted(TheCall) \/ BelowLevel(TheCall) \/ RejectHit(TheCall) \/ CapExceeded

\* the config a group gets when created, enabled
AllDefault(e) ==
    /\ e.conf = Config(jconf.default_switch, <<>>, <<>>, jconf.default_min_level,
                       jconf.default_max_time, <<>>)
    /\ jconf.default_switch

\* C7: should_approve rejects only if one of the four reject rules matches, and
\* with an all-default enabled config, no comment and no level the verdict is
\* (True, "").
C7_JustifiedRejection ==
    Evaluated =>
        /\ ~TheCall.approve => Justified
        /\ AllDefault(TheCall) /\ IsNone(TheCall.comment) /\ IsNone(TheCall.user_level)
              => TheCall.approve /\ TheCall.reason = R_empty

\* C7 as amended: with an all-default enabled config, no comment and no level
\* the verdict is (True, "") unless the default max_time is positive and the
\* recorded count of the pair exceeds it.
C7_JustifiedRejectionWithinCap ==
    Evaluated =>
        /\ ~TheCall.approve => Justified
        /\ AllDefault(TheCall) /\ IsNone(TheCall.comment) /\ IsNone(TheCall.user_level)
              /\ ~CapExceeded
              => TheCall.approve /\ TheCall.reason = R_empty

\* an all-default enabled group approves a request without comment and level
C7_Witness ==
    /\ Evaluated
    /\ AllDefault(TheCall)
    /\ IsNone(TheCall.comment) /\ IsNone(TheCall.user_level)
    /\ TheCall.approve /\ TheCall.reason = R_empty

Monitored == op.kind = "event_monitoring" /\ ~IsNone(op.input.raw)
EventGroup == IntStr(op.input.raw.val.group_id)
EventIsRequest ==
    /\ "request_type" \in DOMAIN op.input.raw.val
    /\ op.input.raw.val.post_type = "request"
    /\ op.input.raw.val.request_type = "group"
    /\ op.input.raw.val.sub_type = "add"
\* the group has a config whose switch is off, or has none and default_switch is off
SwitchOff(c, g) ==
    IF g \in DOMAIN c THEN ~DictGet(c[g], K_switch, FALSE) ELSE ~jconf.default_switch

\* C8: an event for a group whose switch is false when it arrives invokes no
\* should_approve, changes no counter and no config, and makes no platform call.
C8_DisabledGate ==
    Monitored /\ SwitchOff(op.pre.cfg, EventGroup) =>
        /\ ~Evaluated
        /\ fail = op.pre.fail
        /\ cfg = op.pre.cfg
        /\ op.saves = <<>>
        /\ op.trace = <<>>

\* a join request arrived for a group that has a config with the switch off
C8_Witness ==
    /\ Monitored
    /\ EventIsRequest
    /\ EventGroup \in DOMAIN op.pre.cfg
    /\ SwitchOff(op.pre.cfg, EventGroup)
    /\ ~Evaluated

\* C9: a group with no stored config is enabled as default_switch says, so with
\* default_switch = true its join requests are evaluated, and the first
\* event_monitoring call or mutation touching it creates its default config.
C9_UnseenGroupDefaults ==
    /\ Monitored /\ EventGroup \notin DOMAIN op.pre.cfg /\ jconf.default_switch =>
          /\ EventGroup \in DOMAIN cfg
          /\ EventIsRequest /\ op.input.fault = "none" => Evaluated
    /\ op.kind \notin {"init", "event_monitoring"}
          /\ op.input.gid \notin DOMAIN op.pre.cfg /\ op.saves # <<>> =>
          op.input.gid \in DOMAIN cfg

NoDuplicates(lst) == \A i, j \in 1..Len(lst) : lst[i] = lst[j] => i = j

\* C10: no user occurs more than once in any group's block_ids.
C10_NoDuplicateBlockIds ==
    \A g \in DOMAIN cfg : NoDuplicates(BlockIdsIn(cfg, g))

\* the last handler is one of the three blacklist triggers
BlacklistTrigger == op.kind \in {"handle_reject_ids", "event_monitoring"}

\* C11: each blacklist trigger (admin command, reject-keyword hit, leave
\* auto-insert) only adds users: every user in a group's block_ids before the
\* trigger is still in it afterward.
C11_BlacklistOnlyGrows ==
    BlacklistTrigger =>
        \A g \in DOMAIN op.pre.cfg :
            ToSet(BlockIdsIn(op.pre.cfg, g)) \subseteq ToSet(BlockIdsIn(cfg, g))

LastSaveOk == op.saves # <<>> /\ op.saves[Len(op.saves)] = "ok"

\* C12: after a completed mutating store operation whose save does not fail the
\* persisted mapping equals the in-memory mapping, and no mutating operation
\* returns with an in-memory change that no save followed.
C12_WriteThrough ==
    op.kind \in StoreOps =>
        /\ LastSaveOk => disk = JsonDump(cfg)
        /\ cfg # op.pre.cfg => op.saves # <<>>

\* a set() on a group without a config: the save of ensure_group failed, the
\* save of set() did not, and the file holds the mapping
C12_Witness ==
    /\ op.kind = "set"
    /\ op.input.gid \notin DOMAIN op.pre.cfg
    /\ op.saves = <<"fail", "ok">>
    /\ cfg # op.pre.cfg
    /\ disk = JsonDump(cfg)

\* the store was constructed over a file that json.load cannot read
LoadedCorrupt == op.kind = "init" /\ op.input = [file |-> Corrupt]

\* C13: when the stored file cannot be deserialized at startup, construction
\* completes without raising, the in-memory mapping is empty and the persisted
\* store is reinitialized to the empty mapping.
C13_CorruptStoreRecovery ==
    LoadedCorrupt =>
        /\ ~op.raised
        /\ cfg = EmptyDict
        /\ disk = JsonDump(EmptyDict)

\* C13 as amended: the persisted store is reinitialized by one save, and holds
\* the empty mapping unless that save fails.
C13_CorruptStoreRecoveryUnlessSaveFails ==
    LoadedCorrupt =>
        /\ ~op.raised
        /\ cfg = EmptyDict
        /\ Len(op.saves) = 1
        /\ op.saves = <<"ok">> => disk = JsonDump(EmptyDict)

\* constructed over a corrupt file: the mapping is empty and the file holds {}
C13_Witness ==
    /\ LoadedCorrupt
    /\ cfg = EmptyDict
    /\ disk = JsonDump(EmptyDict)

\* the group has a config whose switch is on
SwitchOn(c, g) == g \in DOMAIN c /\ DictGet(c[g], K_switch, FALSE)
\* the last handler handled a join request of an enabled group
HandledRequest ==
    /\ Monitored
    /\ EventIsRequest
    /\ SwitchOn(op.pre.cfg, EventGroup)

\* the calls a pre-notification consists of
NumericIds == SelectSeq(admin_ids, IsDigit)
PreNotification ==
    IF jconf.admin_audit
    THEN [i \in 1..Len(NumericIds) |-> Call("send_private_msg", NumericIds[i])]
    ELSE <<Call("send", "notice")>>
IsPreNotification(c) ==
    IF jconf.admin_audit THEN c.call = "send_private_msg"
    ELSE c = Call("send", "notice")

\* positions j < k < l of op.trace: the evaluation, the resolution call carrying
\* the verdict's approve flag, the follow-up message with the verdict
OrderedFrom(j, k, l) ==
    /\ j < k /\ k < l
    /\ op.trace[j].call = "should_approve"
    /\ op.trace[k].call = "set_group_add_request"
    /\ op.trace[k].args[1] = TheCall.approve
    /\ op.trace[l] = Call("send", <<TheCall.approve, TheCall.reason>>)

AutoResolveFailed ==
    /\ Monitored
    /\ EventIsRequest
    /\ op.input.fault = "set_group_add_request"
    /\ op.trace # <<>>
    /\ op.trace[Len(op.trace)].call = "set_group_add_request"
ManualResolveFailed ==
    /\ op.kind \in {"agree_add_group", "refuse_add_group"}
    /\ op.input.fault
    /\ \E i \in 1..Len(op.trace) : op.trace[i].call = "set_group_add_request"
\* the handler ended by sending a message
EndsWithMessage ==
    /\ op.trace # <<>>
    /\ op.trace[Len(op.trace)].call = "send"

\* C15: whenever set_group_add_request fails, in the automatic flow of
\* event_monitoring and in the manual flow of set_approve, the failure does not
\* leave the handler and a "could not process" message is sent.
C15_ResolveFailureReported ==
    AutoResolveFailed \/ ManualResolveFailed =>
        /\ ~op.raised
        /\ EndsWithMessage

\* the last handler handled a voluntary-leave notice of an enabled group
EventIsLeave ==
    /\ "notice_type" \in DOMAIN op.input.raw.val
    /\ op.input.raw.val.post_type = "notice"
    /\ op.input.raw.val.notice_type = "group_decrease"
    /\ op.input.raw.val.sub_type = "leave"
HandledLeave ==
    /\ Monitored
    /\ EventIsLeave
    /\ SwitchOn(op.pre.cfg, EventGroup)

\* C16: when leave_block is configured and the group is enabled, handling a
\* voluntary leave of u leaves u in the group's block_ids (persisted, when no
\* save failed) and the leave message reports the blacklisting, whatever
\* leave_notify is.
C16_LeaveAutoBlacklist ==
    HandledLeave /\ jconf.leave_block =>
        /\ InList(op.input.raw.val.user_id, BlockIdsIn(cfg, EventGroup))
        /\ (\A i \in 1..Len(op.saves) : op.saves[i] = "ok") =>
               InList(op.input.raw.val.user_id, PersistedBlockIds(EventGroup))
        /\ \E i \in 1..Len(op.trace) : op.trace[i] = Call("send", "left, blacklisted")

LevelVerdict(e) == ~e.approve /\ e.reason.msg = R_level(0, 0).msg
RejectKeywordVerdict(e) == ~e.approve /\ e.reason = R_reject_kw

\* C19: a rejection by the level rule leaves the group's block_ids and every
\* attempt counter unchanged, even if the comment contains a reject keyword and
\* max_time > 0; a rejection by the reject-keyword rule changes no counter.
C19_ShortCircuit ==
    Evaluated =>
        /\ LevelVerdict(TheCall) =>
              /\ BlockIdsIn(cfg, TheCall.group_id) = BlockIdsAt(TheCall)
              /\ fail = op.pre.fail
        /\ RejectKeywordVerdict(TheCall) => fail = op.pre.fail

\* a level rejection of a request whose comment holds a reject keyword, in a
\* group with max_time > 0: the user is not blacklisted, no attempt is counted
C19_Witness ==
    /\ Evaluated
    /\ LevelVerdict(TheCall)
    /\ RejectHit(TheCall)
    /\ MaxTimeAt(TheCall) > 0
    /\ ~InList(TheCall.user_id, BlockIdsIn(cfg, TheCall.group_id))
    /\ fail = op.pre.fail

\* keys of the config dict of a group
OtherFields == {K_switch, K_accept_keywords, K_reject_keywords, K_min_level, K_max_time}

\* C20: a should_approve(g, u, ...) call changes nothing except possibly g's
\* block_ids, only by adding u, and the counter of (g, u): g's other fields,
\* every other group's config and every other counter are unchanged.
C20_EvaluationFrame ==
    Evaluated =>
        LET g == TheCall.group_id
            u == TheCall.user_id
        IN  /\ DOMAIN cfg = DOMAIN op.pre.cfg
            /\ \A h \in DOMAIN cfg \ {g} : cfg[h] = op.pre.cfg[h]
            /\ DOMAIN cfg[g] = DOMAIN op.pre.cfg[g]
            /\ \A k \in OtherFields : cfg[g][k] = op.pre.cfg[g][k]
            /\ ToSet(BlockIdsIn(op.pre.cfg, g)) \subseteq ToSet(BlockIdsIn(cfg, g))
            /\ ToSet(BlockIdsIn(cfg, g)) \subseteq ToSet(BlockIdsIn(op.pre.cfg, g)) \cup {u}
            /\ DOMAIN op.pre.fail \subseteq DOMAIN fail
            /\ \A key \in DOMAIN fail \ {g \o <<"_">> \o u} :
                  key \in DOMAIN op.pre.fail /\ fail[key] = op.pre.fail[key]

\* a call that blacklists its user while another group has a config and another
\* pair a counter
C20_Witness ==
    /\ Evaluated
    /\ \E h \in DOMAIN cfg : h # TheCall.group_id
    /\ \E key \in DOMAIN fail : key # TheCall.group_id \o <<"_">> \o TheCall.user_id
    /\ RejectKeywordVerdict(TheCall)
    /\ ~Blacklisted(TheCall)
    /\ InList(TheCall.user_id, BlockIdsIn(cfg, TheCall.group_id))

\* the group's switch when the call e was made
SwitchAt(e) == DictGet(e.conf, K_switch, FALSE)
CallsWithSwitchOn(g, u) == {i \in CallsOf(g, u) : SwitchAt(hist[i])}

\* the handler i went on to call should_approve
Invoked(i) == tasks[i].pc \in {"set_group_add_request", "done"}

Counted(g, u) ==
    {i \in 1..Len(tasks) : /\ tasks[i].group_id = g
                           /\ tasks[i].user_id = u
                           /\ ~IsNone(tasks[i].seen)}

\* C18: for any interleaving of n join-request handlers of one (group, user)
\* that reach the attempt rule with max_time > 0, the counter of the pair ends
\* n higher than it started and the n evaluations see n distinct consecutive
\* counts.
C18_NoLostAttempts ==
    \A i \in 1..Len(tasks) :
        LET g == tasks[i].group_id
            u == tasks[i].user_id
            n == Cardinality(Counted(g, u))
        IN  /\ CounterOf(fail, g, u) = n
            /\ {tasks[j].seen.val : j \in Counted(g, u)} = 1..n

\* two handlers of one pair were suspended together: the one that arrived
\* later was evaluated first, and they saw the counts 1 and 2
C18_Witness ==
    /\ Len(tasks) >= 2
    /\ tasks[1].group_id = tasks[2].group_id
    /\ tasks[1].user_id = tasks[2].user_id
    /\ tasks[1].seen = Some(2)
    /\ tasks[2].seen = Some(1)

====
